---- MODULE Spec2Model ----
(***************************************************************************)
(* Model of the caching and data-freshness subsystem of mobility_aggregator *)
(*   - utils/cache.py        SimpleCache (LRU + TTL)                       *)
(*   - utils/api_checker.py  APIStateManager and check_and_update_apis     *)
(*   - main.py               background_api_checker                        *)
(*   - providers/mensa.py    MensaProvider._should_refresh_menu,           *)
(*                           MensaProvider.get_weekly_menu                 *)
(*   - api/endpoints.py      cache keys, the clear-all endpoint            *)
(*   - utils/station_finder.py  the nearest-stations cache key             *)
(***************************************************************************)
EXTENDS Integers, Sequences, FiniteSets, TLC

(***************************************************************************)
(* Bounds of the model                                                     *)
(***************************************************************************)
\* SimpleCache(max_size, ttl): the constructor's arguments, small here
max_size == 2
ttl == 2
\* time.time() runs over 0..MaxTime
MaxTime == 2
\* number of cache calls in one behaviour
MaxOps == 4
\* number of probe cycles in one behaviour (the startup one included)
MaxCycles == 3
\* handle_failure(api_key, threshold): thresholds 1..MaxThreshold
MaxThreshold == 2
\* the freshness gate is asked at most MaxGapDays calendar days after last_updated
MaxGapDays == 8

\* the years last_updated is drawn from: 2024 is a leap year, 2026 has 53 ISO weeks
Years == 2024..2026
\* the minutes of the day a timestamp is drawn from: 00:01 and 23:59
Minutes == {1, 1439}

KeySet == {"a", "b", "c"}
ValueSet == {"v1", "v2"}
\* Python's None
None == "None"

VARIABLES
    \* ---- SimpleCache (utils/cache.py) ----
    cache,        \* self._cache: OrderedDict, oldest first, as a sequence of [key, value]
    timestamps,   \* self._timestamps: dict key -> time of the set
    hits,         \* self._hits
    misses,       \* self._misses
    evictions,    \* self._evictions
    now,          \* time.time()
    ret,          \* the last call on the cache and what it returned
    steps,        \* number of cache calls made so far
    lastSet,      \* history: per key, the time, value and call number of its most recent set
    lastAccess,   \* history: per key, the call number of its most recent set or get-hit
    setRun,       \* history: the keys set so far, while the calls are sets of distinct keys
    locked,       \* self._lock is held
    current_time, \* cleanup_expired's local of line 79 while the call waits for the lock, else NoRead
    served,       \* history: the gets that returned a value (h) and that returned absent (m)
    ledger,       \* history, since construction or the last clear: the sets that inserted
                  \* an absent key (inserted), the deletes that returned True (deleted)
    \* ---- APIStateManager, check_and_update_apis (utils/api_checker.py, main.py) ----
    state,          \* _api_manager._state: APIState
    failure_counts, \* _api_manager._failure_counts
    threshold,      \* handle_failure's threshold argument
    pc,             \* where the checker is: [cap, at], at one of startup, test_bvg, test_vbb, sleep
    task,           \* who runs the cycle: "startup" (lifespan) or "periodic" (background_api_checker)
    cycles,         \* number of probe cycles started
    read,           \* the last get_current_*_api_base call and what it returned
    pre,            \* history: each capability's (name, base) when the current cycle started
    outcome,        \* history: the probe results of the current cycle, per capability
    consec,         \* history: per capability, the primary's consecutive failed probes
    committed,      \* history: per capability, the base URL of the most recent update_state
    aborted,        \* history: the last cycle was cancelled by wait_for's timeout
    running,        \* history: the cycles entered and not yet returned or cancelled
    upstream,       \* the last request sent to an upstream API: capability and base URL
    probe,          \* one run of test_stations_api / test_journeys_api: its results so far
    \* ---- MensaProvider._should_refresh_menu (providers/mensa.py) ----
    last_updated,   \* menu_data["last_updated"], a datetime: [year, doy, ord, minute]
    menu_now,       \* datetime.now() of line 181
    gate_done,      \* _should_refresh_menu has returned
    needs_refresh,  \* what it returned
    \* ---- MensaProvider.get_weekly_menu (providers/mensa.py) ----
    mensa_cached,   \* what mensa_cache.get(cache_key) gives: [has, last_updated]
    mensa_db,       \* what DatabaseService.get_mensa_menu gives: [has, last_updated]
    menu_time,      \* datetime.now()
    menu_pc,        \* where get_weekly_menu is: idle, db or scrape
    menu_call,      \* the call's force_refresh and the module's DB_AVAILABLE
    menu_ret,       \* what the last call returned, from where, and what it refused on the way
    promoted,       \* history: the last persistent-store record written into mensa_cache
    \* ---- the named caches and the clear-all endpoint (utils/cache.py, api/endpoints.py) ----
    registry,       \* per named cache: the keys of _cache, _timestamps, _evictions, and
                    \* (history) the sets that inserted an absent key
    admin_now,      \* time.time(), as an index into AdminTimes
    sweep,          \* cleanup_all_caches: its position, its results, and (history) the
                    \* visits it paid and the entries it removed, per cache
    stores,         \* number of entries stored in the named caches so far
    admin,          \* the last administrative request and its response
    \* ---- cache keys (api/endpoints.py, utils/station_finder.py) ----
    reqA,           \* a request
    reqB,           \* another request
    keyA,           \* the cache key built for reqA
    keyB            \* the cache key built for reqB

cacheVars == <<cache, timestamps, hits, misses, evictions, now, ret, steps,
               lastSet, lastAccess, setRun, locked, current_time, served, ledger>>

gateVars == <<last_updated, menu_now, gate_done, needs_refresh>>

menuVars == <<mensa_cached, mensa_db, menu_time, menu_pc, menu_call, menu_ret, promoted>>

adminVars == <<registry, admin, admin_now, sweep, stores>>

keyVars == <<reqA, reqB, keyA, keyB>>

probeVars == <<probe>>

apiVars == <<state, failure_counts, threshold, pc, task, cycles, read,
             pre, outcome, consec, committed, aborted, running, upstream>>

vars == <<cache, timestamps, hits, misses, evictions, now, ret, steps,
          lastSet, lastAccess, setRun, locked, current_time, served, ledger,
          state, failure_counts, threshold, pc, task, cycles, read,
          pre, outcome, consec, committed, aborted, running, upstream, probe,
          last_updated, menu_now, gate_done, needs_refresh,
          mensa_cached, mensa_db, menu_time, menu_pc, menu_call, menu_ret, promoted,
          registry, admin, admin_now, sweep, stores,
          reqA, reqB, keyA, keyB>>

(***************************************************************************)
(* OrderedDict and dict operations                                         *)
(***************************************************************************)
\* the keys of an OrderedDict
KeysOf(c) == {c[i].key : i \in DOMAIN c}

\* c[k], k present
ValueOf(c, k) == c[CHOOSE i \in DOMAIN c : c[i].key = k].value

\* a del that removes nothing
DelItem_Keeps(c, k) == c
DelKey_Keeps(d, k) == d

\* del c[k]
DelItem(c, k) == SelectSeq(c, LAMBDA e : e.key # k)

\* c[k] = v: a present key keeps its place, a new key goes to the end
SetItem(c, k, v) ==
    IF k \in KeysOf(c)
    THEN [i \in DOMAIN c |-> IF c[i].key = k THEN [key |-> k, value |-> v] ELSE c[i]]
    ELSE Append(c, [key |-> k, value |-> v])

\* a move_to_end that leaves the entry where it is
MoveToEnd_Stays(c, k) == c

\* c.move_to_end(k)
MoveToEnd(c, k) == Append(DelItem(c, k), [key |-> k, value |-> ValueOf(c, k)])

\* del d[k] on a plain dict
DelKey(d, k) == [x \in (DOMAIN d) \ {k} |-> d[x]]

\* d[k] = t on a plain dict
PutKey(d, k, t) == [x \in (DOMAIN d) \cup {k} |-> IF x = k THEN t ELSE d[x]]

(***************************************************************************)
(* SimpleCache                                                             *)
(***************************************************************************)
\* an expiry test that still accepts an entry of age ttl
Fresh_Inclusive(t, stamp) == t - stamp <= ttl

\* get's test of line 30: the entry is not expired
Fresh(t, stamp) == t - stamp < ttl

\* an expiry sweep that spares an entry of age exactly ttl
Expired_Strict(t, stamp) == t - stamp > ttl

\* cleanup_expired's test of line 84
Expired(t, stamp) == t - stamp >= ttl

\* a capacity test that lets the cache grow one entry too far
AtCapacity_Strict(c) == Len(c) > max_size

\* set's loop condition of line 48
AtCapacity(c) == Len(c) >= max_size

\* an eviction loop that drops the newest entry instead of the oldest
RECURSIVE EvictLoop_Newest(_, _, _)
EvictLoop_Newest(c, ts, ev) ==
    IF AtCapacity(c) /\ Len(c) > 0
    THEN EvictLoop_Newest(SubSeq(c, 1, Len(c) - 1), DelKey(ts, c[Len(c)].key),
                          Append(ev, c[Len(c)].key))
    ELSE [cache |-> c, timestamps |-> ts, evicted |-> ev]

\* set's loop of lines 48-52: drops the first entry of the OrderedDict while the
\* cache is at capacity; `ev` collects the keys dropped.  (On an empty dict
\* next(iter()) would raise; with max_size >= 1 the loop never gets there.)
RECURSIVE EvictLoop(_, _, _)
EvictLoop(c, ts, ev) ==
    IF AtCapacity(c) /\ Len(c) > 0
    THEN EvictLoop(Tail(c), DelKey(ts, Head(c).key), Append(ev, Head(c).key))
    ELSE [cache |-> c, timestamps |-> ts, evicted |-> ev]

\* no cleanup_expired is between its clock read of line 79 and its sweep
NoRead == 0 - 1

\* a lock whose acquire always gives the event loop a turn
AcquireSuspends_Always(held) == TRUE

\* `async with self._lock`: asyncio.Lock.acquire returns without suspending
\* when the lock is free and suspends the caller when it is held.  Every
\* `async with self._lock` body of SimpleCache is free of awaits, so the lock is
\* released in the step that took it.
AcquireSuspends(held) == held

\* a clear that leaves a counter as it was
ResetCounter_Keeps(n) == n

\* clear's `self._hits = 0`, `self._misses = 0`, `self._evictions = 0`
ResetCounter(n) == 0

\* what get returns for k at time t (lines 28-42)
GetValue(c, ts, t, k) ==
    IF k \in KeysOf(c) /\ Fresh(t, ts[k]) THEN ValueOf(c, k) ELSE None

\* what a call leaves in `ret`: the call, its key, its result, the time it ran
\* at, whether the key was present when it was called, the keys it evicted
Returned(op, k, v, t, present, ev) ==
    [op |-> op, key |-> k, val |-> v, at |-> t, present |-> present, evicted |-> ev]

Broken == [keys |-> <<>>, ok |-> FALSE]

InitCache ==
    /\ cache = <<>>
    /\ timestamps = <<>>
    /\ hits = 0
    /\ misses = 0
    /\ evictions = 0
    /\ now = 0
    /\ ret = Returned("init", None, None, 0, FALSE, <<>>)
    /\ steps = 0
    /\ lastSet = [k \in KeySet |-> [t |-> -1, v |-> None, n |-> 0]]
    /\ lastAccess = [k \in KeySet |-> 0]
    /\ setRun = [keys |-> <<>>, ok |-> TRUE]
    /\ locked = FALSE
    /\ current_time = NoRead
    /\ served = [h |-> 0, m |-> 0]
    /\ ledger = [inserted |-> 0, deleted |-> 0]

\* SimpleCache.get
Get(k) ==
    /\ steps < MaxOps
    /\ steps' = steps + 1
    /\ IF k \in KeysOf(cache)
       THEN IF Fresh(now, timestamps[k])
            THEN /\ cache' = MoveToEnd(cache, k)
                 /\ hits' = hits + 1
                 /\ ret' = Returned("get", k, ValueOf(cache, k), now, TRUE, <<>>)
                 /\ lastAccess' = [lastAccess EXCEPT ![k] = steps + 1]
                 /\ UNCHANGED <<timestamps, misses, evictions>>
            ELSE /\ cache' = DelItem(cache, k)
                 /\ timestamps' = DelKey(timestamps, k)
                 /\ evictions' = evictions + 1
                 /\ misses' = misses + 1
                 /\ ret' = Returned("get", k, None, now, TRUE, <<>>)
                 /\ UNCHANGED <<hits, lastAccess>>
       ELSE /\ misses' = misses + 1
            /\ ret' = Returned("get", k, None, now, FALSE, <<>>)
            /\ UNCHANGED <<cache, timestamps, hits, evictions, lastAccess>>
    /\ setRun' = IF setRun.ok /\ Len(setRun.keys) = max_size + 1 THEN setRun ELSE Broken
    /\ served' = IF ret'.val # None THEN [served EXCEPT !.h = @ + 1]
                                    ELSE [served EXCEPT !.m = @ + 1]
    /\ UNCHANGED <<now, lastSet, locked, current_time, ledger>>

\* SimpleCache.set
Set(k, v) ==
    /\ steps < MaxOps
    /\ steps' = steps + 1
    /\ LET e == EvictLoop(cache, timestamps, <<>>)
       IN /\ cache' = MoveToEnd(SetItem(e.cache, k, v), k)
          /\ timestamps' = PutKey(e.timestamps, k, now)
          /\ evictions' = evictions + Len(e.evicted)
          /\ ret' = Returned("set", k, None, now, k \in KeysOf(cache), e.evicted)
          /\ ledger' = IF k \in KeysOf(e.cache) THEN ledger
                       ELSE [ledger EXCEPT !.inserted = @ + 1]
    /\ lastSet' = [lastSet EXCEPT ![k] = [t |-> now, v |-> v, n |-> steps + 1]]
    /\ lastAccess' = [lastAccess EXCEPT ![k] = steps + 1]
    /\ setRun' = IF setRun.ok /\ k \notin KeysOf(setRun.keys) /\ Len(setRun.keys) <= max_size
                 THEN [setRun EXCEPT !.keys = Append(@, [key |-> k, value |-> v])]
                 ELSE Broken
    /\ UNCHANGED <<hits, misses, now, locked, current_time, served>>

\* SimpleCache.delete
Delete(k) ==
    /\ steps < MaxOps
    /\ steps' = steps + 1
    /\ IF k \in KeysOf(cache)
       THEN /\ cache' = DelItem(cache, k)
            /\ timestamps' = DelKey(timestamps, k)
            /\ ret' = Returned("delete", k, TRUE, now, TRUE, <<>>)
            /\ ledger' = [ledger EXCEPT !.deleted = @ + 1]
       ELSE /\ ret' = Returned("delete", k, FALSE, now, FALSE, <<>>)
            /\ UNCHANGED <<cache, timestamps, ledger>>
    /\ setRun' = Broken
    /\ UNCHANGED <<hits, misses, evictions, now, lastSet, lastAccess,
                   locked, current_time, served>>

\* SimpleCache.clear
Clear ==
    /\ steps < MaxOps
    /\ steps' = steps + 1
    /\ cache' = <<>>
    /\ timestamps' = <<>>
    /\ hits' = ResetCounter(hits)
    /\ misses' = ResetCounter(misses)
    /\ evictions' = ResetCounter(evictions)
    /\ ret' = Returned("clear", None, None, now, FALSE, <<>>)
    /\ setRun' = Broken
    /\ served' = [h |-> 0, m |-> 0]
    /\ ledger' = [inserted |-> 0, deleted |-> 0]
    /\ UNCHANGED <<now, lastSet, lastAccess, locked, current_time>>

\* SimpleCache.cleanup_expired.  Line 79 reads the clock, line 82 takes the
\* lock, lines 83-90 sweep.  The call is suspended between the clock read and
\* the sweep only if taking the lock suspends; it then resumes with the clock
\* value it read before.
CleanupExpired ==
    /\ steps < MaxOps
    /\ IF current_time = NoRead /\ AcquireSuspends(locked)
       THEN /\ current_time' = now
            /\ UNCHANGED <<cache, timestamps, evictions, ret, steps, setRun>>
       ELSE LET read_time == IF current_time = NoRead THEN now ELSE current_time
                expired_keys == {k \in DOMAIN timestamps : Expired(read_time, timestamps[k])}
            IN /\ steps' = steps + 1
               /\ cache' = SelectSeq(cache, LAMBDA e : e.key \notin expired_keys)
               /\ timestamps' = [k \in (DOMAIN timestamps) \ expired_keys |-> timestamps[k]]
               /\ evictions' = evictions + Cardinality(expired_keys)
               /\ ret' = Returned("cleanup_expired", None, Cardinality(expired_keys),
                                  now, FALSE, <<>>)
               /\ setRun' = Broken
               /\ current_time' = NoRead
    /\ UNCHANGED <<hits, misses, now, lastSet, lastAccess, locked, served, ledger>>

\* the clock advances
Tick ==
    /\ now < MaxTime
    /\ now' = now + 1
    /\ setRun' = IF setRun.ok /\ \A k \in DOMAIN timestamps : Fresh(now + 1, timestamps[k])
                 THEN setRun ELSE Broken
    /\ UNCHANGED <<cache, timestamps, hits, misses, evictions, ret, steps, lastSet,
                   lastAccess, locked, current_time, served, ledger>>

\* a rounding that drops the fraction
RoundHalfEven_Floor(num, den) == num \div den

\* round(num / den): Python rounds to the nearest integer, a tie to the even one
RoundHalfEven(num, den) ==
    LET q == num \div den
        r == num % den
    IN IF 2 * r > den THEN q + 1
       ELSE IF 2 * r < den THEN q
       ELSE IF q % 2 = 0 THEN q ELSE q + 1

\* get_stats' hit rate of lines 96-97 and 105: round(hits / total * 100, 2), or 0
\* when there was no get.  The value is kept as an integer number of hundredths
\* of a percent: 3333 stands for 33.33.
HitRatePercent(h, m) ==
    IF h + m > 0 THEN RoundHalfEven(10000 * h, h + m) ELSE 0

\* SimpleCache.get_stats: it takes no lock and changes nothing, so it is the
\* value of this expression in the state it is called in
get_stats ==
    [size |-> Len(cache),
     max_size |-> max_size,
     hits |-> hits,
     misses |-> misses,
     evictions |-> evictions,
     hit_rate_percent |-> HitRatePercent(hits, misses),
     ttl_seconds |-> ttl]

(***************************************************************************)
(* APIStateManager and the probe cycle                                     *)
(***************************************************************************)
BVG_URL == "https://v6.bvg.transport.rest"
VBB_URL == "https://v6.vbb.transport.rest"

Capabilities == {"stations", "journeys"}

\* field selectors that write every capability into the stations fields
BaseField_Shared(cap) == "stations_base"
NameField_Shared(cap) == "stations_name"

\* the APIState fields of a capability
BaseField(cap) == IF cap = "stations" THEN "stations_base" ELSE "journeys_base"
NameField(cap) == IF cap = "stations" THEN "stations_name" ELSE "journeys_name"

\* the _failure_counts keys of a capability
BvgKey(cap) == IF cap = "stations" THEN "bvg_stations" ELSE "bvg_journeys"
VbbKey(cap) == IF cap = "stations" THEN "vbb_stations" ELSE "vbb_journeys"

\* the (provider name, base URL) a capability is pinned to
Active(s, cap) == <<s[NameField(cap)], s[BaseField(cap)]>>

BvgPair == <<"bvg", BVG_URL>>
VbbPair == <<"vbb", VBB_URL>>

\* an update that leaves last_check as it was
update_state_Stale(s, cap, base, name, t) ==
    [s EXCEPT ![BaseField(cap)] = base, ![NameField(cap)] = name]

\* APIStateManager.update_state(<cap>_base=base, <cap>_name=name) at time t
update_state(s, cap, base, name, t) ==
    [s EXCEPT ![BaseField(cap)] = base, ![NameField(cap)] = name, !.last_check = t]

\* APIStateManager.handle_failure: the counter after the call
handle_failure(fc, api_key) == [fc EXCEPT ![api_key] = @ + 1]

\* a switch test that needs one failure more than the threshold
should_switch_Late(fc, api_key, th) == fc[api_key] > th

\* APIStateManager.handle_failure: its return value, from the counter after the increment
should_switch(fc, api_key, th) == fc[api_key] >= th

\* a reset that leaves the counter as it was
reset_failures_Keeps(fc, api_key) == fc

\* APIStateManager.reset_failures
reset_failures(fc, api_key) == [fc EXCEPT ![api_key] = 0]

\* a journeys getter that reads the stations field
get_current_journeys_api_base_Stations(s) == s.stations_base

\* get_current_stations_api_base / get_current_journeys_api_base, on get_state's copy
get_current_stations_api_base(s) == s.stations_base
get_current_journeys_api_base(s) == s.journeys_base

\* get_api_status, on get_state's copy
get_api_status(s) ==
    [stations_api |-> [provider |-> s.stations_name, base_url |-> s.stations_base],
     journeys_api |-> [provider |-> s.journeys_name, base_url |-> s.journeys_base],
     last_check |-> s.last_check]

\* a secondary branch that pins VBB whatever its probe said
VbbWorking_Always(working) == TRUE

\* the test of lines 189 and 218: vbb_<cap>["working"]
VbbWorking(working) == working

\* a wait_for that raises TimeoutError while the cycle it cancelled runs on
AfterCancel_Detached(n) == n

\* wait_for(check_and_update_apis(), 60): on the timeout it cancels the cycle
\* and awaits it before it raises, so the cycle is over when the loop goes on
AfterCancel(n) == n - 1

\* a checker that ends when wait_for raises TimeoutError
AfterTimeout_Stops == [cap |-> "none", at |-> "stopped"]

\* background_api_checker catches asyncio.TimeoutError and loops back to its sleep
AfterTimeout == [cap |-> "none", at |-> "sleep"]

\* where the cycle goes once a capability's step is over: journeys follow
\* stations, and after journeys the checker sleeps (the startup cycle returns
\* to lifespan, which then creates the background_api_checker task)
AfterStep(cap) ==
    IF cap = "stations"
    THEN [cap |-> "journeys", at |-> "test_bvg"]
    ELSE [cap |-> "none", at |-> "sleep"]

NoOutcome == [bvg |-> "none", vbb |-> "none"]

InitApi ==
    /\ state = [stations_base |-> BVG_URL, stations_name |-> "bvg",
                journeys_base |-> BVG_URL, journeys_name |-> "bvg",
                last_check |-> 0]
    /\ failure_counts = [k \in {"bvg_stations", "bvg_journeys",
                                "vbb_stations", "vbb_journeys"} |-> 0]
    /\ threshold \in 1..MaxThreshold
    /\ pc = [cap |-> "none", at |-> "startup"]
    /\ task = "startup"
    /\ cycles = 0
    /\ read = [cap |-> "none", url |-> None, tog |-> FALSE]
    /\ pre = [c \in Capabilities |-> BvgPair]
    /\ outcome = [c \in Capabilities |-> NoOutcome]
    /\ consec = [c \in Capabilities |-> 0]
    /\ committed = [c \in Capabilities |-> BVG_URL]
    /\ aborted = FALSE
    /\ running = 0
    /\ upstream = [cap |-> "none", url |-> None]

\* a cycle begins: check_and_update_apis is entered
BeginCycle ==
    /\ cycles < MaxCycles
    /\ cycles' = cycles + 1
    /\ pc' = [cap |-> "stations", at |-> "test_bvg"]
    /\ pre' = [c \in Capabilities |-> Active(state, c)]
    /\ outcome' = [c \in Capabilities |-> NoOutcome]
    /\ aborted' = FALSE
    /\ running' = running + 1
    /\ UNCHANGED <<state, failure_counts, threshold, read, consec, committed, upstream>>

\* lifespan: the cycle at process startup (main.py:80-83), not under wait_for
StartupCycle ==
    /\ pc.at = "startup"
    /\ BeginCycle
    /\ UNCHANGED task

\* background_api_checker: the sleep is over, wait_for(check_and_update_apis(), 60)
StartCycle ==
    /\ pc.at = "sleep"
    /\ BeginCycle
    /\ task' = "periodic"

\* the primary's probe returns, and the cycle runs on to its next probe: lines
\* 171-184 for stations, 200-213 for journeys
ProbeBvg(working) ==
    /\ pc.at = "test_bvg"
    /\ LET cap == pc.cap
       IN /\ outcome' = [outcome EXCEPT ![cap].bvg = IF working THEN "pass" ELSE "fail"]
          /\ consec' = [consec EXCEPT ![cap] = IF working THEN 0 ELSE @ + 1]
          /\ IF working
             THEN /\ failure_counts' = reset_failures(failure_counts, BvgKey(cap))
                  /\ state' = update_state(state, cap, BVG_URL, "bvg", cycles)
                  /\ committed' = [committed EXCEPT ![cap] = BVG_URL]
                  /\ pc' = AfterStep(cap)
             ELSE /\ failure_counts' = handle_failure(failure_counts, BvgKey(cap))
                  /\ pc' = IF should_switch(failure_counts', BvgKey(cap), threshold)
                           THEN [cap |-> cap, at |-> "test_vbb"]
                           ELSE AfterStep(cap)
                  /\ UNCHANGED <<state, committed>>
    /\ running' = IF pc'.at = "sleep" THEN running - 1 ELSE running
    /\ UNCHANGED <<threshold, task, cycles, read, pre, aborted, upstream>>

\* the secondary's probe returns: lines 186-197 for stations, 215-226 for journeys
ProbeVbb(working) ==
    /\ pc.at = "test_vbb"
    /\ LET cap == pc.cap
       IN /\ outcome' = [outcome EXCEPT ![cap].vbb = IF working THEN "pass" ELSE "fail"]
          /\ IF VbbWorking(working)
             THEN /\ state' = update_state(state, cap, VBB_URL, "vbb", cycles)
                  /\ failure_counts' = reset_failures(failure_counts, VbbKey(cap))
                  /\ committed' = [committed EXCEPT ![cap] = VBB_URL]
             ELSE UNCHANGED <<state, failure_counts, committed>>
          /\ pc' = AfterStep(cap)
    /\ running' = IF pc'.at = "sleep" THEN running - 1 ELSE running
    /\ UNCHANGED <<threshold, task, cycles, read, pre, consec, aborted, upstream>>

\* wait_for's 60 s run out (main.py:106-108).  The cancellation reaches the
\* cycle at the await it is suspended on; the manager's lock is never held
\* across an await, so the cycle is only ever suspended inside a probe, whose
\* result is then never produced.
Timeout ==
    /\ task = "periodic"
    /\ pc.at \in {"test_bvg", "test_vbb"}
    /\ outcome' = [outcome EXCEPT ![pc.cap] =
                      IF pc.at = "test_bvg" THEN [@ EXCEPT !.bvg = "aborted"]
                                            ELSE [@ EXCEPT !.vbb = "aborted"]]
    /\ pc' = AfterTimeout
    /\ aborted' = TRUE
    /\ running' = AfterCancel(running)
    /\ UNCHANGED <<state, failure_counts, threshold, task, cycles, read, pre,
                   consec, committed, upstream>>

\* a request handler calls get_current_stations_api_base
ReadStations ==
    /\ read' = [cap |-> "stations", url |-> get_current_stations_api_base(state),
                tog |-> ~read.tog]
    /\ UNCHANGED <<state, failure_counts, threshold, pc, task, cycles,
                   pre, outcome, consec, committed, aborted, running, upstream>>

\* a request handler calls get_current_journeys_api_base
ReadJourneys ==
    /\ read' = [cap |-> "journeys", url |-> get_current_journeys_api_base(state),
                tog |-> ~read.tog]
    /\ UNCHANGED <<state, failure_counts, threshold, pc, task, cycles,
                   pre, outcome, consec, committed, aborted, running, upstream>>

(***************************************************************************)
(* The probes: test_stations_api and test_journeys_api                     *)
(***************************************************************************)
\* what one synthetic query can come back with: client.get raises (error), or
\* answers with a status and a body; the body does not decode, or decodes to
\* null, to a list of items, or to an object with its "journeys" and "info"
Response(error, status, kind, items, info) ==
    [error |-> error, status |-> status, kind |-> kind, items |-> items, info |-> info]

\* answers to GET /locations/nearby; an item is named by its "type", and
\* "scalar" is an item that is not an object
StationResponses ==
    {Response("network", 0, "none", <<>>, "absent"),
     Response("timeout", 0, "none", <<>>, "absent"),
     Response("none", 500, "list", <<"stop">>, "absent"),
     Response("none", 200, "undecodable", <<>>, "absent"),
     Response("none", 200, "object", <<>>, "absent"),
     Response("none", 200, "list", <<>>, "absent"),
     Response("none", 200, "list", <<"location">>, "absent"),
     Response("none", 200, "list", <<"stop">>, "absent"),
     Response("none", 200, "list", <<"location", "stop">>, "absent"),
     Response("none", 200, "list", <<"stop", "scalar">>, "absent"),
     Response("none", 200, "list", <<"scalar", "stop">>, "absent")}

\* answers to GET /journeys; an item of "journeys" is "legs" (its legs are not
\* empty), "empty" (legs is empty) or "nolegs" (no legs key); kind "object"
\* has a journeys key and "bare" has none; info is the type of "info",
\* "absent", or "scalar" for an info that is not an object
JourneyResponses ==
    {Response("network", 0, "none", <<>>, "absent"),
     Response("timeout", 0, "none", <<>>, "absent"),
     Response("none", 404, "object", <<"legs">>, "absent"),
     Response("none", 200, "undecodable", <<>>, "absent"),
     Response("none", 200, "null", <<>>, "absent"),
     Response("none", 200, "list", <<>>, "absent"),
     Response("none", 200, "bare", <<>>, "absent"),
     Response("none", 200, "bare", <<>>, "no_stations"),
     Response("none", 200, "bare", <<>>, "no_results"),
     Response("none", 200, "bare", <<>>, "other"),
     Response("none", 200, "object", <<>>, "absent"),
     Response("none", 200, "object", <<"legs">>, "absent"),
     Response("none", 200, "object", <<"nolegs">>, "absent"),
     Response("none", 200, "object", <<"empty", "legs">>, "absent"),
     Response("none", 200, "object", <<"legs", "empty">>, "other"),
     Response("none", 200, "object", <<"legs">>, "scalar"),
     Response("none", 200, "object", <<"empty">>, "no_results")}

Responses(cap) == IF cap = "stations" THEN StationResponses ELSE JourneyResponses

\* any(stop.get("type") == "stop" for stop in data): "raise" when an item with
\* no .get is reached before a stop
RECURSIVE AnyStop(_)
AnyStop(items) ==
    IF items = <<>> THEN "false"
    ELSE IF Head(items) = "scalar" THEN "raise"
    ELSE IF Head(items) = "stop" THEN "true"
    ELSE AnyStop(Tail(items))

\* the body of the inner try of test_stations_api for one query: "count" when
\* results["stations"] is incremented, "skip" when it is not, "raise" when an
\* exception leaves the try body
StationsTry(resp) ==
    IF resp.error # "none" THEN "raise"
    ELSE IF resp.status # 200 THEN "skip"
    ELSE IF resp.kind = "undecodable" THEN "raise"
    ELSE IF resp.kind # "list" THEN "skip"
    ELSE IF Len(resp.items) = 0 THEN "skip"
    ELSE IF AnyStop(resp.items) = "true" THEN "count"
    ELSE IF AnyStop(resp.items) = "raise" THEN "raise"
    ELSE "skip"

\* the body of the inner try of test_journeys_api for one query; valid_info
\* is computed after valid_journeys whatever valid_journeys is
JourneysTry(resp) ==
    IF resp.error # "none" THEN "raise"
    ELSE IF resp.status # 200 THEN "skip"
    ELSE IF resp.kind = "undecodable" THEN "raise"
    ELSE IF resp.kind = "null" THEN "raise"
    ELSE LET valid_journeys == /\ resp.kind = "object"
                               /\ Len(resp.items) > 0
                               /\ Head(resp.items) = "legs"
             has_info == resp.kind \in {"object", "bare"} /\ resp.info # "absent"
             valid_info == has_info /\ resp.info \in {"no_stations", "no_results"}
         IN IF has_info /\ resp.info = "scalar" THEN "raise"
            ELSE IF valid_journeys \/ valid_info THEN "count"
            ELSE "skip"

\* "except: pass" (api_checker.py:123 and 155): the exception is dropped and
\* the query counts for nothing
BareExcept(tried) == IF tried = "raise" THEN "skip" ELSE tried

\* one query of the loop: what it adds to results[...], or "raise"
QueryResult(cap, resp) ==
    BareExcept(IF cap = "stations" THEN StationsTry(resp) ELSE JourneysTry(resp))

\* a verdict that wants all three queries
Working_All(n) == n >= 3

\* results["working"] = results[...] >= 2
Working(n) == n >= 2

\* no probe is running
InitProbe ==
    probe = [at |-> "idle", cap |-> "none", asked |-> <<>>, n |-> 0,
             working |-> FALSE, raised |-> FALSE]

\* test_stations_api / test_journeys_api is entered: results = {<n>: 0,
\* "working": False} and the client is opened
BeginProbe(cap) ==
    /\ probe.at = "idle"
    /\ probe' = [probe EXCEPT !.at = "query", !.cap = cap]

\* one iteration of the loop over the three tests; after the third one the
\* verdict is set and results is returned
ProbeQuery(resp) ==
    /\ probe.at = "query"
    /\ LET tried == QueryResult(probe.cap, resp)
           n == IF tried = "count" THEN probe.n + 1 ELSE probe.n
           asked == Append(probe.asked, resp)
       IN probe' =
            IF tried = "raise"
            THEN [probe EXCEPT !.at = "returned", !.asked = asked, !.raised = TRUE]
            ELSE IF Len(asked) = 3
            THEN [probe EXCEPT !.at = "returned", !.asked = asked, !.n = n,
                               !.working = Working(n)]
            ELSE [probe EXCEPT !.asked = asked, !.n = n]

\* find_nearest_stations: the base URL is the literal of station_finder.py:25
StationFinderBase(s) == BVG_URL

\* BvgProvider.get_routes: the base URL is read from the tracker (bvg.py:45)
\* right before the request; no await that suspends lies between the two
RoutesBase(s) == get_current_journeys_api_base(s)

\* a handler looks up the stations near a point: GET {base}/locations/nearby
find_nearest_stations ==
    /\ upstream' = [cap |-> "stations", url |-> StationFinderBase(state)]
    /\ UNCHANGED <<state, failure_counts, threshold, pc, task, cycles, read,
                   pre, outcome, consec, committed, aborted, running>>

\* a handler asks for routes: GET {base}/journeys
get_routes ==
    /\ upstream' = [cap |-> "journeys", url |-> RoutesBase(state)]
    /\ UNCHANGED <<state, failure_counts, threshold, pc, task, cycles, read,
                   pre, outcome, consec, committed, aborted, running>>

(***************************************************************************)
(* The freshness gate: MensaProvider._should_refresh_menu                  *)
(***************************************************************************)
IsLeap(y) == (y % 4 = 0) /\ ((y % 100 # 0) \/ (y % 400 = 0))

DaysInYear(y) == IF IsLeap(y) THEN 366 ELSE 365

\* the days before 1 January of year y in the proleptic Gregorian calendar
DaysBeforeYear(y) ==
    (y - 1) * 365 + ((y - 1) \div 4) - ((y - 1) \div 100) + ((y - 1) \div 400)

\* date.toordinal() of day doy of year y; ordinal 1 is Monday 0001-01-01
Ordinal(y, doy) == DaysBeforeYear(y) + doy

\* a datetime: its year, its day of the year, its ordinal and its minute of the day
Datetime(y, doy, m) == [year |-> y, doy |-> doy, ord |-> Ordinal(y, doy), minute |-> m]

\* d + timedelta(days = gap), at minute m
PlusDays(d, gap, m) ==
    IF d.doy + gap > DaysInYear(d.year)
    THEN Datetime(d.year + 1, d.doy + gap - DaysInYear(d.year), m)
    ELSE Datetime(d.year, d.doy + gap, m)

\* the ordinal of the Monday that starts ISO week 1 of year y
IsoWeek1Monday(y) ==
    LET firstday == Ordinal(y, 1)
        firstweekday == (firstday + 6) % 7
        week1monday == firstday - firstweekday
    IN IF firstweekday > 3 THEN week1monday + 7 ELSE week1monday

\* d.isocalendar()[1]: the ISO week number, 1..53, without its ISO year
IsoWeek(d) ==
    LET week == (d.ord - IsoWeek1Monday(d.year)) \div 7
    IN IF week < 0
       THEN ((d.ord - IsoWeek1Monday(d.year - 1)) \div 7) + 1
       ELSE IF week >= 52 /\ d.ord >= IsoWeek1Monday(d.year + 1)
            THEN 1
            ELSE week + 1

\* (a - b).days: whole days, rounded down
TimedeltaDays(a, b) ==
    ((a.ord * 1440 + a.minute) - (b.ord * 1440 + b.minute)) \div 1440

\* an age rule that waits for the eighth day
AgeLimitReached_Late(days) == days > 7

\* rule 1 of line 187: days_since_update >= 7
AgeLimitReached(days) == days >= 7

\* _should_refresh_menu, lines 183-193
should_refresh_menu(lu, n) ==
    IF AgeLimitReached(TimedeltaDays(n, lu))
    THEN TRUE
    ELSE IF IsoWeek(lu) < IsoWeek(n)
         THEN TRUE
         ELSE FALSE

\* no menu is being looked at
InitGateIdle ==
    /\ last_updated = Datetime(2024, 1, 1)
    /\ menu_now = Datetime(2024, 1, 1)
    /\ gate_done = FALSE
    /\ needs_refresh = FALSE

\* a menu record of any date of Years, looked at up to MaxGapDays days later
InitGate ==
    /\ \E y \in Years : \E doy \in 1..DaysInYear(y) : \E m \in Minutes :
          last_updated = Datetime(y, doy, m)
    /\ \E gap \in 0..MaxGapDays : \E m \in Minutes :
          menu_now = PlusDays(last_updated, gap, m)
    /\ gate_done = FALSE
    /\ needs_refresh = FALSE

\* _should_refresh_menu(menu_data) is called and returns
ShouldRefreshMenu ==
    /\ ~gate_done
    /\ gate_done' = TRUE
    /\ needs_refresh' = should_refresh_menu(last_updated, menu_now)
    /\ UNCHANGED <<last_updated, menu_now>>

(***************************************************************************)
(* MensaProvider.get_weekly_menu                                           *)
(***************************************************************************)
\* the clock may advance this many days while menus are asked for
MaxMenuTicks == 3

\* the first datetime.now(): Sunday 2025-12-28 18:00
MenuStart == Datetime(2025, 362, 1080)

\* the last_updated of the records found in the cache or the persistent store:
\* noon of Sunday 21, Monday 22, Sunday 28 and Monday 29 December 2025
MenuDates == {Datetime(2025, doy, 720) : doy \in {355, 356, 362, 363}}

\* a lookup that found nothing, and one that found a record last updated at d
NoRecord == [has |-> FALSE, last_updated |-> Datetime(2024, 1, 1)]
Record(d) == [has |-> TRUE, last_updated |-> d]

\* a test that takes any record that was found
Usable_Blind(rec, t) == rec.has

\* the tests of lines 64-67 and 84-88: a record was found and
\* _should_refresh_menu says it needs no refresh
Usable(rec, t) == rec.has /\ ~should_refresh_menu(rec.last_updated, t)

\* the sources a call has looked at and refused so far
Refusing(refused, src, rec, t) ==
    IF rec.has /\ ~Usable(rec, t) THEN refused \cup {src} ELSE refused

MenuReturned(src, rec, t, refused) ==
    [src |-> src, rec |-> rec, at |-> t, refused |-> refused]

\* no menu has been asked for
InitMenuIdle ==
    /\ mensa_cached = NoRecord
    /\ mensa_db = NoRecord
    /\ menu_time = MenuStart
    /\ menu_pc = "idle"
    /\ menu_call = [force_refresh |-> FALSE, db_available |-> TRUE]
    /\ menu_ret = MenuReturned("none", NoRecord, MenuStart, {})
    /\ promoted = [has |-> FALSE, rec |-> NoRecord, at |-> MenuStart]

\* the cache and the persistent store hold any record or none; DB_AVAILABLE
\* (lines 16-21) is fixed when the module is imported
InitMenu ==
    /\ mensa_cached \in {NoRecord} \cup {Record(d) : d \in MenuDates}
    /\ mensa_db \in {NoRecord} \cup {Record(d) : d \in MenuDates}
    /\ menu_time = MenuStart
    /\ menu_pc = "idle"
    /\ \E db \in BOOLEAN : menu_call = [force_refresh |-> FALSE, db_available |-> db]
    /\ menu_ret = MenuReturned("none", NoRecord, MenuStart, {})
    /\ promoted = [has |-> FALSE, rec |-> NoRecord, at |-> MenuStart]

\* get_weekly_menu is called for a known mensa and runs to its first I/O: the
\* cache step of lines 62-76.  `parses` is whether WeeklyMenu(**cached_menu)
\* succeeds; an exception there is caught and the call goes on.
GetWeeklyMenu(force_refresh, parses) ==
    /\ menu_pc = "idle"
    /\ menu_call' = [menu_call EXCEPT !.force_refresh = force_refresh]
    /\ IF ~force_refresh /\ Usable(mensa_cached, menu_time) /\ parses
       THEN /\ menu_ret' = MenuReturned("cache", mensa_cached, menu_time, {})
            /\ menu_pc' = "idle"
       ELSE /\ menu_ret' = MenuReturned("pending", NoRecord, menu_time,
                               IF force_refresh THEN {}
                               ELSE Refusing({}, "cache", mensa_cached, menu_time))
            /\ menu_pc' = IF menu_call.db_available /\ ~force_refresh
                          THEN "db" ELSE "scrape"
    /\ UNCHANGED <<mensa_cached, mensa_db, menu_time, promoted>>

\* DatabaseService.get_mensa_menu returns: the persistent-store step of lines
\* 79-103.  `answers` is whether the query gave its record (it may raise or
\* give None), `parses` whether _parse_db_menu_data succeeds; any exception is
\* caught by line 102 and the call goes on to scrape.
DbLookup(answers, parses) ==
    /\ menu_pc = "db"
    /\ IF answers /\ Usable(mensa_db, menu_time) /\ parses
       THEN /\ mensa_cached' = mensa_db
            /\ promoted' = [has |-> TRUE, rec |-> mensa_db, at |-> menu_time]
            /\ menu_ret' = MenuReturned("db", mensa_db, menu_time, menu_ret.refused)
            /\ menu_pc' = "idle"
       ELSE /\ menu_ret' = [menu_ret EXCEPT !.refused =
                               IF answers
                               THEN Refusing(@, "db", mensa_db, menu_time) ELSE @]
            /\ menu_pc' = "scrape"
            /\ UNCHANGED <<mensa_cached, promoted>>
    /\ UNCHANGED <<mensa_db, menu_time, menu_call>>

\* _scrape_weekly_menu returns: lines 106-135.  A scraped menu is stamped
\* datetime.now() (line 303), saved to the store when there is one (the save
\* may fail) and cached; a failed scrape returns None.
Scrape(ok, saved) ==
    /\ menu_pc = "scrape"
    /\ IF ok
       THEN /\ mensa_cached' = Record(menu_time)
            /\ mensa_db' = IF menu_call.db_available /\ saved
                           THEN Record(menu_time) ELSE mensa_db
            /\ menu_ret' = MenuReturned("scrape", Record(menu_time), menu_time,
                                        menu_ret.refused)
       ELSE /\ menu_ret' = MenuReturned("failed", NoRecord, menu_time, menu_ret.refused)
            /\ UNCHANGED <<mensa_cached, mensa_db>>
    /\ menu_pc' = "idle"
    /\ UNCHANGED <<menu_time, menu_call, promoted>>

\* a day passes
MenuTick ==
    /\ menu_time.ord < MenuStart.ord + MaxMenuTicks
    /\ menu_time' = PlusDays(menu_time, 1, menu_time.minute)
    /\ UNCHANGED <<mensa_cached, mensa_db, menu_pc, menu_call, menu_ret, promoted>>

(***************************************************************************)
(* The named caches and the clear-all endpoint                             *)
(***************************************************************************)
\* the cache instances of utils/cache.py, lines 114-123
CacheNames == {"api_cache", "geocoding_cache", "transport_cache", "mensa_cache"}

\* the keys an instance may hold
EntryKeys == {"x", "y"}

\* the named caches are stored into this many times
MaxStores == 2

\* the names utils/cache.py defines at module level
CacheModuleNames ==
    {"SimpleCache", "api_cache", "geocoding_cache", "transport_cache", "mensa_cache",
     "CACHE_TTL", "get_cached_data", "set_cached_data",
     "cleanup_all_caches", "get_all_cache_stats"}

\* `from utils.cache import <name>` raises ImportError
ImportFails(name) == name \notin CacheModuleNames

\* a sweep that visits the first cache twice and never the second
CleanupOrder_Twice == <<"api_cache", "api_cache", "transport_cache", "mensa_cache">>

\* the list cleanup_all_caches loops over
CleanupOrder == <<"api_cache", "geocoding_cache", "transport_cache", "mensa_cache">>

\* the name cleanup_all_caches reports an instance under
ResultName(name) ==
    CASE name = "api_cache" -> "api"
      [] name = "geocoding_cache" -> "geocoding"
      [] name = "transport_cache" -> "transport"
      [] name = "mensa_cache" -> "mensa"

\* the ttl each instance is constructed with, in seconds
TtlOf(name) ==
    CASE name = "api_cache" -> 300
      [] name = "geocoding_cache" -> 604800
      [] name = "transport_cache" -> 30
      [] name = "mensa_cache" -> 604800

\* the instants, in seconds, the clock is looked at
AdminTimes == <<0, 30, 300, 604800>>

\* an instance: the keys of _cache, _timestamps, _evictions, and (history) the
\* number of sets that inserted an absent key
EmptyCache == [keys |-> {}, stamps |-> <<>>, evictions |-> 0, inserted |-> 0]

\* cache.set(k, v) at time t.  The instances hold 50 entries or more and the
\* model two keys: set's eviction loop never runs.
CacheSet(c, k, t) ==
    [keys |-> c.keys \cup {k}, stamps |-> PutKey(c.stamps, k, t),
     evictions |-> c.evictions,
     inserted |-> IF k \in c.keys THEN c.inserted ELSE c.inserted + 1]

\* cache.get(k) at time t with the instance's ttl: an expired entry is dropped
CacheGet(c, k, t, life) ==
    IF k \in c.keys /\ ~(t - c.stamps[k] < life)
    THEN [c EXCEPT !.keys = @ \ {k}, !.stamps = DelKey(@, k), !.evictions = @ + 1]
    ELSE c

\* cache.cleanup_expired() at time t: the instance afterwards and the value returned
CacheCleanup(c, t, life) ==
    LET expired_keys == {k \in DOMAIN c.stamps : t - c.stamps[k] >= life}
    IN [cache |-> [c EXCEPT !.keys = @ \ expired_keys,
                            !.stamps = [k \in (DOMAIN @) \ expired_keys |-> @[k]],
                            !.evictions = @ + Cardinality(expired_keys)],
        cleaned |-> Cardinality(expired_keys)]

\* the entries held by all the instances together
TotalEntries(reg) ==
    Cardinality(reg["api_cache"].keys) + Cardinality(reg["geocoding_cache"].keys)
      + Cardinality(reg["transport_cache"].keys) + Cardinality(reg["mensa_cache"].keys)

\* an administrative response: the request, its HTTP status, the total it
\* reports, and (history) the entries held when the request arrived
AdminResponse(op, status, total, before) ==
    [op |-> op, status |-> status, total |-> total, before |-> before]

\* no sweep has been asked for
NoSweep ==
    [at |-> 0, results |-> <<>>, before |-> 0,
     visits |-> [n \in CacheNames |-> 0], removed |-> [n \in CacheNames |-> 0]]

InitRegistry ==
    /\ registry = [n \in CacheNames |-> EmptyCache]
    /\ admin = AdminResponse("none", 0, 0, 0)
    /\ admin_now = 1
    /\ sweep = NoSweep
    /\ stores = 0

\* a request handler stores an entry in one of the instances
Store(name, k) ==
    /\ stores < MaxStores
    /\ stores' = stores + 1
    /\ registry' = [registry EXCEPT ![name] = CacheSet(@, k, AdminTimes[admin_now])]
    /\ UNCHANGED <<admin, admin_now, sweep>>

\* a request handler looks an entry up in one of the instances
Fetch(name, k) ==
    /\ registry' = [registry EXCEPT
                       ![name] = CacheGet(@, k, AdminTimes[admin_now], TtlOf(name))]
    /\ UNCHANGED <<admin, admin_now, sweep, stores>>

\* the clock reaches its next instant
AdminTick ==
    /\ admin_now < Len(AdminTimes)
    /\ admin_now' = admin_now + 1
    /\ UNCHANGED <<registry, admin, sweep, stores>>

\* total_cleaned = sum(cleanup_results.values())
SumResults(results) ==
    results["api"] + results["geocoding"] + results["transport"] + results["mensa"]

\* POST /cache/cleanup arrives (endpoints.py:614-618): cleanup_all_caches is
\* imported and entered, results = {}.  One sweep is followed from any state
\* of the caches; what a sweep leaves behind, lookups of the expired keys
\* leave behind as well, so a later sweep starts from a state this one can
\* start from.
CleanupBegin ==
    /\ sweep.at = 0
    /\ ~ImportFails("cleanup_all_caches")
    /\ sweep' = [NoSweep EXCEPT !.at = 1, !.before = TotalEntries(registry)]
    /\ UNCHANGED <<registry, admin, admin_now, stores>>

\* one turn of cleanup_all_caches' loop: cleanup_expired on the next instance,
\* its count stored under the instance's name.  After the last turn the
\* results are returned and the endpoint answers with their sum.  Other
\* handlers and the clock may take steps between two turns.
CleanupStep ==
    /\ sweep.at \in 1..Len(CleanupOrder)
    /\ LET name == CleanupOrder[sweep.at]
           swept == CacheCleanup(registry[name], AdminTimes[admin_now], TtlOf(name))
           gone == Cardinality(registry[name].keys) - Cardinality(swept.cache.keys)
           results == PutKey(sweep.results, ResultName(name), swept.cleaned)
       IN /\ registry' = [registry EXCEPT ![name] = swept.cache]
          /\ sweep' = [sweep EXCEPT !.at = @ + 1, !.results = results,
                                    !.visits[name] = @ + 1,
                                    !.removed[name] = @ + gone]
          /\ admin' = IF sweep.at = Len(CleanupOrder)
                      THEN AdminResponse("cleanup", 200, SumResults(results), sweep.before)
                      ELSE admin
    /\ UNCHANGED <<admin_now, stores>>

\* DELETE /cache/clear, endpoints.py:635-642.  The handler's first statement
\* imports clear_all_caches from utils.cache, which defines no such name: the
\* ImportError is caught by `except Exception` and answered with HTTP 500
\* before any cache is touched.
ClearAllCachesEndpoint ==
    /\ ImportFails("clear_all_caches")
    /\ admin' = AdminResponse("clear_all", 500, 0, TotalEntries(registry))
    /\ UNCHANGED <<registry, admin_now, sweep, stores>>

(***************************************************************************)
(* Cache keys                                                              *)
(***************************************************************************)
\* coordinates are integers in units of 0.0000001 degree, radii in units of 0.1 m
CoordSet == {0 - 4, 4, 6, 14, 1004}

DepartureSet == {None, "2025-05-05T11:09:00"}

Abs(x) == IF x < 0 THEN 0 - x ELSE x

RECURSIVE Pow10(_)
Pow10(n) == IF n = 0 THEN 1 ELSE 10 * Pow10(n - 1)

\* the last w decimal digits of n, with leading zeros
RECURSIVE Digits(_, _)
Digits(n, w) == IF w = 0 THEN "" ELSE Digits(n \div 10, w - 1) \o ToString(n % 10)

\* f"{x:.<d>f}": x rounded to d decimals; the sign of x is kept even when the
\* rounded value is zero ("-0.000000")
FormatFixed(x, d) ==
    LET q == RoundHalfEven(Abs(x), Pow10(7 - d))
    IN (IF x < 0 THEN "-" ELSE "") \o ToString(q \div Pow10(d)) \o "."
          \o Digits(q % Pow10(d), d)

\* a coordinate format that keeps four decimals only
FormatCoord_Coarse(x) == FormatFixed(x, 4)

\* {from_lat:.6f} and the like in endpoints.py:214, 307, 378
FormatCoord(x) == FormatFixed(x, 6)

\* {lat:.4f} in station_finder.py:111
FormatStationCoord(x) == FormatFixed(x, 4)

\* f"{radius}" of a float with one decimal: repr, "500.0"
FormatFloat(r) == ToString(r \div 10) \o "." \o ToString(r % 10)

\* f"{flag}" of a bool
FormatBool(b) == IF b THEN "True" ELSE "False"

\* a request: the operation and its parameters after the handler has parsed
\* them; a parameter the operation does not have keeps one fixed value
Request(op, lat, lon, to_lat, to_lon, departure, results, stopovers, polylines, radius, limit) ==
    [op |-> op, lat |-> lat, lon |-> lon, to_lat |-> to_lat, to_lon |-> to_lon,
     departure |-> departure, results |-> results, stopovers |-> stopovers,
     polylines |-> polylines, radius |-> radius, limit |-> limit]

HealthRequest == Request("health", 4, 4, 4, 14, None, 1, FALSE, FALSE, 5000, 5)

Requests ==
    {Request("parsed_routes", lat, lon, 4, 14, dep, res, st, po, 5000, 5) :
        lat \in CoordSet, lon \in {4, 6}, dep \in DepartureSet, res \in {1, 2},
        st \in BOOLEAN, po \in BOOLEAN}
    \cup
    {Request("pretty_routes", lat, lon, 4, 14, dep, res, st, FALSE, 5000, 5) :
        lat \in CoordSet, lon \in {4, 6}, dep \in DepartureSet, res \in {1, 2},
        st \in BOOLEAN}
    \cup
    {Request("nearby_bikes", lat, lon, 4, 14, None, 1, FALSE, FALSE, rad, lim) :
        lat \in CoordSet, lon \in {4, 6}, rad \in {5000, 5005}, lim \in {5, 6}}
    \cup
    {Request("stations", lat, lon, 4, 14, None, res, FALSE, FALSE, 5000, 5) :
        lat \in CoordSet, lon \in {4, 6}, res \in {1, 2}}
    \cup
    {HealthRequest}

\* the cache key the handler of r.op builds: endpoints.py:214, 307, 378,
\* station_finder.py:111, and the health check's constant of endpoints.py:35
CacheKey(r) ==
    CASE r.op = "parsed_routes" ->
            "parsed_routes:" \o FormatCoord(r.lat) \o ":" \o FormatCoord(r.lon)
              \o ":" \o FormatCoord(r.to_lat) \o ":" \o FormatCoord(r.to_lon)
              \o ":" \o r.departure \o ":" \o ToString(r.results)
              \o ":" \o FormatBool(r.stopovers) \o ":" \o FormatBool(r.polylines)
      [] r.op = "pretty_routes" ->
            "pretty_routes:" \o FormatCoord(r.lat) \o ":" \o FormatCoord(r.lon)
              \o ":" \o FormatCoord(r.to_lat) \o ":" \o FormatCoord(r.to_lon)
              \o ":" \o r.departure \o ":" \o ToString(r.results)
              \o ":" \o FormatBool(r.stopovers)
      [] r.op = "nearby_bikes" ->
            "nearby_bikes:" \o FormatCoord(r.lat) \o ":" \o FormatCoord(r.lon)
              \o ":" \o FormatFloat(r.radius) \o ":" \o ToString(r.limit)
      [] r.op = "stations" ->
            "stations:" \o FormatStationCoord(r.lat) \o ":" \o FormatStationCoord(r.lon)
              \o ":" \o ToString(r.results)
      [] OTHER -> "health_test"

\* no key has been built
NoKey == ""

InitKeysIdle ==
    /\ reqA = HealthRequest
    /\ reqB = HealthRequest
    /\ keyA = NoKey
    /\ keyB = NoKey

\* any two requests
InitKeys ==
    /\ reqA \in Requests
    /\ reqB \in Requests
    /\ keyA = NoKey
    /\ keyB = NoKey

\* the handler of the first request builds its key
BuildKeyA ==
    /\ keyA = NoKey
    /\ keyA' = CacheKey(reqA)
    /\ UNCHANGED <<reqA, reqB, keyB>>

\* the handler of the second request builds its key
BuildKeyB ==
    /\ keyB = NoKey
    /\ keyB' = CacheKey(reqB)
    /\ UNCHANGED <<reqA, reqB, keyA>>

(***************************************************************************)
(* Specifications                                                          *)
(***************************************************************************)
\* handle_failure's default threshold (api_checker.py:62), the one
\* check_and_update_apis runs with
DefaultThreshold == 1

\* the process after its modules are loaded, the threshold being the default
Init ==
    /\ InitCache
    /\ InitApi /\ threshold = DefaultThreshold
    /\ InitGateIdle
    /\ InitMenuIdle
    /\ InitRegistry
    /\ InitProbe
    /\ InitKeysIdle

\* the same, for any threshold handle_failure can be given
InitOfApi ==
    InitCache /\ InitApi /\ InitGateIdle /\ InitMenuIdle /\ InitRegistry /\ InitProbe /\ InitKeysIdle

NextCache ==
    \/ \E k \in KeySet : Get(k) /\ UNCHANGED <<apiVars, gateVars, menuVars, adminVars, keyVars, probeVars>>
    \/ \E k \in KeySet, v \in ValueSet : Set(k, v) /\ UNCHANGED <<apiVars, gateVars, menuVars, adminVars, keyVars, probeVars>>
    \/ \E k \in KeySet : Delete(k) /\ UNCHANGED <<apiVars, gateVars, menuVars, adminVars, keyVars, probeVars>>
    \/ Clear /\ UNCHANGED <<apiVars, gateVars, menuVars, adminVars, keyVars, probeVars>>
    \/ CleanupExpired /\ UNCHANGED <<apiVars, gateVars, menuVars, adminVars, keyVars, probeVars>>
    \/ Tick /\ UNCHANGED <<apiVars, gateVars, menuVars, adminVars, keyVars, probeVars>>

\* one SimpleCache under any sequence of calls
SpecCache == Init /\ [][NextCache]_vars

NextApi ==
    \/ StartupCycle /\ UNCHANGED <<cacheVars, gateVars, menuVars, adminVars, keyVars, probeVars>>
    \/ StartCycle /\ UNCHANGED <<cacheVars, gateVars, menuVars, adminVars, keyVars, probeVars>>
    \/ \E working \in BOOLEAN : ProbeBvg(working) /\ UNCHANGED <<cacheVars, gateVars, menuVars, adminVars, keyVars, probeVars>>
    \/ \E working \in BOOLEAN : ProbeVbb(working) /\ UNCHANGED <<cacheVars, gateVars, menuVars, adminVars, keyVars, probeVars>>
    \/ Timeout /\ UNCHANGED <<cacheVars, gateVars, menuVars, adminVars, keyVars, probeVars>>
    \/ ReadStations /\ UNCHANGED <<cacheVars, gateVars, menuVars, adminVars, keyVars, probeVars>>
    \/ ReadJourneys /\ UNCHANGED <<cacheVars, gateVars, menuVars, adminVars, keyVars, probeVars>>
    \/ find_nearest_stations /\ UNCHANGED <<cacheVars, gateVars, menuVars, adminVars, keyVars, probeVars>>
    \/ get_routes /\ UNCHANGED <<cacheVars, gateVars, menuVars, adminVars, keyVars, probeVars>>

\* the health checker: the startup cycle, then background_api_checker, with
\* request handlers reading the active base URLs at any time
SpecApi == InitOfApi /\ [][NextApi]_vars

\* what the event loop is bound to do: lifespan runs the startup cycle, the
\* checker's asyncio.sleep(600) ends, and a probe answers (each query within
\* httpx's 5 s) or is cancelled by wait_for's 60 s
ApiProgress ==
    /\ \/ StartupCycle
       \/ StartCycle
       \/ \E working \in BOOLEAN : ProbeBvg(working)
       \/ \E working \in BOOLEAN : ProbeVbb(working)
       \/ Timeout
    /\ UNCHANGED <<cacheVars, gateVars, menuVars, adminVars, keyVars, probeVars>>

\* the health checker on an event loop that keeps running
SpecApiLive == InitOfApi /\ [][NextApi]_vars /\ WF_vars(ApiProgress)

NextProbe ==
    \/ \E cap \in Capabilities : BeginProbe(cap) /\ UNCHANGED <<cacheVars, apiVars, gateVars, menuVars, adminVars, keyVars>>
    \/ \E resp \in Responses(probe.cap) : ProbeQuery(resp) /\ UNCHANGED <<cacheVars, apiVars, gateVars, menuVars, adminVars, keyVars>>

\* one probe of one candidate, its three queries answered in any way
SpecProbe == Init /\ [][NextProbe]_vars

NextGate == ShouldRefreshMenu /\ UNCHANGED <<cacheVars, apiVars, menuVars, adminVars, keyVars, probeVars>>

\* the freshness gate asked once about any record and any later time
InitOfGate ==
    /\ InitCache
    /\ InitApi /\ threshold = DefaultThreshold
    /\ InitGate
    /\ InitMenuIdle
    /\ InitRegistry
    /\ InitProbe
    /\ InitKeysIdle

SpecGate == InitOfGate /\ [][NextGate]_vars

NextMenu ==
    \/ \E force_refresh, parses \in BOOLEAN :
          GetWeeklyMenu(force_refresh, parses)
            /\ UNCHANGED <<cacheVars, apiVars, gateVars, adminVars, keyVars, probeVars>>
    \/ \E answers, parses \in BOOLEAN :
          DbLookup(answers, parses)
            /\ UNCHANGED <<cacheVars, apiVars, gateVars, adminVars, keyVars, probeVars>>
    \/ \E ok, saved \in BOOLEAN :
          Scrape(ok, saved)
            /\ UNCHANGED <<cacheVars, apiVars, gateVars, adminVars, keyVars, probeVars>>
    \/ MenuTick /\ UNCHANGED <<cacheVars, apiVars, gateVars, adminVars, keyVars, probeVars>>

InitOfMenu ==
    /\ InitCache
    /\ InitApi /\ threshold = DefaultThreshold
    /\ InitGateIdle
    /\ InitMenu
    /\ InitRegistry
    /\ InitProbe
    /\ InitKeysIdle

\* menus asked for, one call at a time, over a few days
SpecMenu == InitOfMenu /\ [][NextMenu]_vars

NextAdmin ==
    \/ \E name \in CacheNames, k \in EntryKeys :
          Store(name, k) /\ UNCHANGED <<cacheVars, apiVars, gateVars, menuVars, keyVars, probeVars>>
    \/ \E name \in CacheNames, k \in EntryKeys :
          Fetch(name, k) /\ UNCHANGED <<cacheVars, apiVars, gateVars, menuVars, keyVars, probeVars>>
    \/ AdminTick /\ UNCHANGED <<cacheVars, apiVars, gateVars, menuVars, keyVars, probeVars>>
    \/ CleanupBegin /\ UNCHANGED <<cacheVars, apiVars, gateVars, menuVars, keyVars, probeVars>>
    \/ CleanupStep /\ UNCHANGED <<cacheVars, apiVars, gateVars, menuVars, keyVars, probeVars>>
    \/ ClearAllCachesEndpoint
          /\ UNCHANGED <<cacheVars, apiVars, gateVars, menuVars, keyVars, probeVars>>

\* the named caches filling up and expiring, the cleanup endpoint sweeping them
\* and the clear-all endpoint called at any time
SpecAdmin == Init /\ [][NextAdmin]_vars

NextKeys ==
    \/ BuildKeyA /\ UNCHANGED <<cacheVars, apiVars, gateVars, menuVars, adminVars, probeVars>>
    \/ BuildKeyB /\ UNCHANGED <<cacheVars, apiVars, gateVars, menuVars, adminVars, probeVars>>

InitOfKeys ==
    /\ InitCache
    /\ InitApi /\ threshold = DefaultThreshold
    /\ InitGateIdle
    /\ InitMenuIdle
    /\ InitRegistry
    /\ InitProbe
    /\ InitKeys

\* two requests, each served by its handler
SpecKeys == InitOfKeys /\ [][NextKeys]_vars

(***************************************************************************)
(* SimpleCache: properties                                                 *)
(***************************************************************************)
\* a cache call has just been made in this step
Called(op) == ret'.op = op /\ steps' = steps + 1

\* C1 (TTL correctness): a get never returns a value whose age, counted from the
\* most recent set of its key, is ttl or more; it returns the value of that set;
\* and a get of a key that is still present returns absent exactly when that age
\* is ttl or more.
C1_TTLCorrectness ==
    ret.op = "get" =>
        LET last == lastSet[ret.key]
        IN /\ ret.val # None =>
                /\ last.t >= 0
                /\ ret.at - last.t < ttl
                /\ ret.val = last.v
           /\ (ret.present /\ ret.at - last.t < ttl) => ret.val = last.v
           /\ (ret.present /\ ret.at - last.t >= ttl) => ret.val = None

\* a get of a present entry at age exactly ttl came back absent
C1_Witness ==
    /\ ret.op = "get"
    /\ ret.present
    /\ ret.val = None
    /\ ret.at - lastSet[ret.key].t = ttl

\* C2 (LRU eviction): after max_size + 1 sets of pairwise distinct keys into the
\* empty cache, with nothing in between and no expiry, the cache holds exactly the
\* last max_size keys: a get of the first key is absent, a get of any other is a hit.
C2_LRUEviction ==
    (setRun.ok /\ Len(setRun.keys) = max_size + 1) =>
        /\ KeysOf(cache) = {setRun.keys[i].key : i \in 2..(max_size + 1)}
        /\ ret.op = "get" =>
              /\ ret.key = setRun.keys[1].key => ret.val = None
              /\ \A i \in 2..(max_size + 1) :
                    ret.key = setRun.keys[i].key => ret.val = setRun.keys[i].value

\* max_size + 1 distinct sets were made and the first key was then looked up
C2_Witness ==
    /\ setRun.ok
    /\ Len(setRun.keys) = max_size + 1
    /\ ret.op = "get"
    /\ ret.key = setRun.keys[1].key

\* C3 (recency bump): the key a set evicts for capacity is one whose most recent
\* set or get-hit is the oldest among the keys present.
C3_RecencyBump ==
    [][Called("set") =>
          \A i \in DOMAIN ret'.evicted : \A k \in KeysOf(cache) :
              lastAccess[ret'.evicted[i]] <= lastAccess[k]]_vars

\* a set evicted a key e while a key that was set before e, and hit by get after
\* e was set, stayed
C3_Witness ==
    /\ ret.op = "set"
    /\ Len(ret.evicted) = 1
    /\ \E k \in KeysOf(cache) \ {ret.key} :
          /\ lastSet[k].n < lastSet[ret.evicted[1]].n
          /\ lastAccess[k] > lastSet[ret.evicted[1]].n

\* C4 (idempotent overwrite): a set of a key that is present leaves the size and
\* the other keys as they were, does not count an eviction, and a following get
\* returns the new value.
C4_IdempotentOverwrite ==
    [][(Called("set") /\ ret'.key \in KeysOf(cache)) =>
          /\ Len(cache') = Len(cache)
          /\ KeysOf(cache') = KeysOf(cache)
          /\ evictions' = evictions
          /\ GetValue(cache', timestamps', now', ret'.key) = lastSet'[ret'.key].v]_vars

\* C5 (capacity): the cache never holds more than max_size entries, and a set of
\* an absent key into a full cache removes exactly the least recently used key
\* and counts exactly one eviction.
C5_Capacity ==
    /\ [](Len(cache) <= max_size)
    /\ [][(Called("set") /\ ret'.key \notin KeysOf(cache) /\ Len(cache) = max_size) =>
             /\ Len(ret'.evicted) = 1
             /\ \A k \in KeysOf(cache) : lastAccess[ret'.evicted[1]] <= lastAccess[k]
             /\ KeysOf(cache') = (KeysOf(cache) \ {ret'.evicted[1]}) \cup {ret'.key}
             /\ Len(cache') = max_size
             /\ evictions' = evictions + 1]_vars

\* a set of an absent key into a full cache evicted one key
C5_Witness ==
    /\ ret.op = "set"
    /\ ~ret.present
    /\ Len(ret.evicted) = 1
    /\ Len(cache) = max_size

(***************************************************************************)
(* Health checker: properties                                              *)
(***************************************************************************)
\* C6 (pin on total failure): each capability is always pinned to one of the two
\* candidates, and when both the primary's and the secondary's probe of a cycle
\* failed, the capability's provider name and base URL are those it had when the
\* cycle started.
C6_PinOnTotalFailure ==
    \A cap \in Capabilities :
        /\ state[BaseField(cap)] \in {BVG_URL, VBB_URL}
        /\ state[NameField(cap)] \in {"bvg", "vbb"}
        /\ (outcome[cap].bvg = "fail" /\ outcome[cap].vbb = "fail") =>
              Active(state, cap) = pre[cap]

\* a cycle is over in which both probes of a capability pinned to VBB failed
C6_Witness ==
    /\ pc.at = "sleep"
    /\ \E cap \in Capabilities :
          /\ outcome[cap].bvg = "fail"
          /\ outcome[cap].vbb = "fail"
          /\ pre[cap] = VbbPair

\* C7 (failure hysteresis): the primary's failure counter is the number of its
\* consecutive failed probes (a pass resets it); when the primary fails, the
\* secondary is probed in that cycle exactly if that number has reached the
\* threshold, and becomes active if it passes; below the threshold the secondary
\* is not probed and the active endpoint stays what it was.
C7_Hysteresis ==
    \A cap \in Capabilities :
        /\ failure_counts[BvgKey(cap)] = consec[cap]
        /\ outcome[cap].bvg = "fail" =>
              IF consec[cap] >= threshold
              THEN \/ pc = [cap |-> cap, at |-> "test_vbb"]
                   \/ outcome[cap].vbb \in {"pass", "fail", "aborted"}
              ELSE /\ outcome[cap].vbb = "none"
                   /\ Active(state, cap) = pre[cap]
        /\ outcome[cap].vbb # "none" =>
              /\ outcome[cap].bvg = "fail"
              /\ consec[cap] >= threshold
        /\ outcome[cap].vbb = "pass" => Active(state, cap) = VbbPair
        /\ (Active(state, cap) = VbbPair /\ pre[cap] = BvgPair) => outcome[cap].vbb = "pass"

\* with threshold 2 a capability left the primary in the cycle of the primary's
\* second consecutive failure
C7_Witness ==
    /\ threshold = 2
    /\ \E cap \in Capabilities :
          /\ consec[cap] = 2
          /\ outcome[cap].vbb = "pass"
          /\ pre[cap] = BvgPair
          /\ Active(state, cap) = VbbPair

\* C8 (state read): whenever it is called, get_current_stations_api_base or
\* get_current_journeys_api_base returns the base URL of the capability's most
\* recent update_state, and the primary's URL while there has been none.
C8_ReadsLastCommitted ==
    [][read'.tog # read.tog =>
          /\ read'.url = committed[read'.cap]
          /\ cycles = 0 => read'.url = BVG_URL]_vars

\* the journeys URL read is the secondary's while stations are on the primary
\* and a cycle is in progress
C8_Witness ==
    /\ read.cap = "journeys"
    /\ read.url = VBB_URL
    /\ state.stations_base = BVG_URL
    /\ pc.at \in {"test_bvg", "test_vbb"}

WeekIndex(d) == (d.ord - 1) \div 7

\* C9 (calendar boundary): whenever last_updated lies in a strictly earlier ISO
\* calendar week than now, the gate requires a refresh.
C9_EarlierWeekRefresh ==
    (gate_done /\ WeekIndex(last_updated) < WeekIndex(menu_now)) => needs_refresh


(***************************************************************************)
(* Concurrency, sweep, expiry on get, clear and statistics of SimpleCache   *)
(***************************************************************************)
\* the place of key k in the OrderedDict c
PositionOf(c, k) == CHOOSE i \in DOMAIN c : c[i].key = k

\* the age of the entry of k, counted from the most recent set of k
AgeOf(k) == now - lastSet[k].t

C12_SweepExact ==
    [][Called("cleanup_expired") =>
            LET old == {k \in KeysOf(cache) : AgeOf(k) >= ttl}
            IN /\ KeysOf(cache') = KeysOf(cache) \ old
               /\ DOMAIN timestamps' = KeysOf(cache')
               /\ ret'.val = Cardinality(old)
               /\ evictions' = evictions + Cardinality(old)
               /\ hits' = hits /\ misses' = misses
               /\ \A i \in DOMAIN cache' :
                     /\ cache'[i] = cache[PositionOf(cache, cache'[i].key)]
                     /\ timestamps'[cache'[i].key] = timestamps[cache'[i].key]
               /\ \A i, j \in DOMAIN cache' :
                     i < j => PositionOf(cache, cache'[i].key)
                                < PositionOf(cache, cache'[j].key)
               /\ old = KeysOf(cache) =>
                     (ret'.val = Len(cache) /\ Len(cache') = 0)]_vars

\* a sweep found max_size entries, all of them expired, one at age exactly ttl
C12_Witness ==
    /\ ret.op = "cleanup_expired"
    /\ ret.val = max_size
    /\ cache = <<>>
    /\ evictions >= max_size
    /\ \E k \in KeySet : lastSet[k].t >= 0 /\ ret.at - lastSet[k].t = ttl

\* C13 (expiry found by get): a get of a present entry of age ttl or more removes
\* that entry, adds 1 to evictions and 1 to misses, leaves hits and every other
\* entry as they were, and returns absent.
C13_ExpiredGet ==
    [][(Called("get") /\ ret'.key \in KeysOf(cache) /\ AgeOf(ret'.key) >= ttl) =>
            LET k == ret'.key
                p == PositionOf(cache, k)
            IN /\ ret'.val = None
               /\ k \notin KeysOf(cache')
               /\ k \notin DOMAIN timestamps'
               /\ Len(cache') = Len(cache) - 1
               /\ \A i \in DOMAIN cache' :
                     /\ cache'[i] = cache[IF i < p THEN i ELSE i + 1]
                     /\ timestamps'[cache'[i].key] = timestamps[cache'[i].key]
               /\ evictions' = evictions + 1
               /\ misses' = misses + 1
               /\ hits' = hits]_vars

\* a get found its entry at age exactly ttl, removed it and left another entry
C13_Witness ==
    /\ ret.op = "get"
    /\ ret.present
    /\ ret.val = None
    /\ ret.at - lastSet[ret.key].t = ttl
    /\ ret.key \notin KeysOf(cache)
    /\ Len(cache) = 1
    /\ evictions = 1
    /\ misses = 1

\* C14 (clear): when clear has returned the cache holds no entry and hits, misses
\* and evictions are 0, whatever they were before: the removed entries are not
\* counted as evictions.  (max_size and ttl are fixed at construction.)
C14_ClearResets ==
    ret.op = "clear" =>
        /\ cache = <<>>
        /\ DOMAIN timestamps = {}
        /\ hits = 0
        /\ misses = 0
        /\ evictions = 0
        /\ get_stats.max_size = max_size
        /\ get_stats.ttl_seconds = ttl

\* clear ran on a cache that had been filled and read
C14_Witness ==
    /\ ret.op = "clear"
    /\ steps = 4
    /\ \E j, k \in KeySet : j # k /\ lastSet[j].n = 1 /\ lastSet[k].n = 2

\* C15 as stated (hit rate): with H gets that returned a value and M gets that
\* returned absent since construction or the last clear, get_stats reports
\* hits = H, misses = M and a hit rate of exactly 100 * H / (H + M) percent, 0
\* when there was no get.
C15_ExactHitRate ==
    LET H == served.h
        M == served.m
    IN /\ get_stats.hits = H
       /\ get_stats.misses = M
       /\ H + M = 0 => get_stats.hit_rate_percent = 0
       /\ H + M > 0 => get_stats.hit_rate_percent * (H + M) = 10000 * H

\* C15 amended: the reported hit rate is 100 * H / (H + M) percent rounded to two
\* decimal places, so it is within half a hundredth of a percent of that ratio.
C15_RoundedHitRate ==
    LET H == served.h
        M == served.m
        err == get_stats.hit_rate_percent * (H + M) - 10000 * H
    IN /\ get_stats.hits = H
       /\ get_stats.misses = M
       /\ H + M = 0 => get_stats.hit_rate_percent = 0
       /\ H + M > 0 => (2 * err <= H + M /\ -2 * err <= H + M)

\* two gets returned a value and one returned absent: 66.666... is reported as 66.67
C15_Witness ==
    /\ served = [h |-> 2, m |-> 1]
    /\ get_stats.hit_rate_percent = 6667

(***************************************************************************)
(* The freshness gate: age                                                 *)
(***************************************************************************)
\* the minutes from datetime a to datetime b
MinutesBetween(a, b) == (b.ord * 1440 + b.minute) - (a.ord * 1440 + a.minute)

\* C16 (age bound): whenever now - last_updated is seven days or more,
\* _should_refresh_menu reports that a refresh is required, whatever the calendar
\* weeks of the two timestamps.
C16_SevenDaysRefresh ==
    (gate_done /\ MinutesBetween(last_updated, menu_now) >= 7 * 1440) => needs_refresh

\* a record seven days old or more was refused although its week number is not
\* below the current one (the two dates lie on either side of a new year)
C16_Witness ==
    /\ gate_done
    /\ needs_refresh
    /\ MinutesBetween(last_updated, menu_now) >= 7 * 1440
    /\ MinutesBetween(last_updated, menu_now) < 8 * 1440
    /\ IsoWeek(last_updated) >= IsoWeek(menu_now)

(***************************************************************************)
(* The probe cycle: fail-back to the primary                               *)
(***************************************************************************)
\* C20 (fail-back): in a cycle in which the BVG probe of a capability passed,
\* the capability is pinned to BVG and BVG's failure counter for it is 0 from
\* the end of that capability's step on, whatever it was pinned to when the
\* cycle began.
C20_PrimaryPassPins ==
    \A cap \in Capabilities :
        outcome[cap].bvg = "pass" =>
            /\ Active(state, cap) = BvgPair
            /\ get_current_stations_api_base(state) = BVG_URL \/ cap # "stations"
            /\ get_current_journeys_api_base(state) = BVG_URL \/ cap # "journeys"
            /\ failure_counts[BvgKey(cap)] = 0

\* a capability that began the cycle on VBB is back on BVG after BVG's probe passed
C20_Witness ==
    \E cap \in Capabilities :
        /\ pre[cap] = VbbPair
        /\ outcome[cap].bvg = "pass"
        /\ Active(state, cap) = BvgPair
        /\ failure_counts[BvgKey(cap)] = 0

(***************************************************************************)
(* get_weekly_menu and the freshness gate                                  *)
(***************************************************************************)
\* C17 (gate before use): without force_refresh, get_weekly_menu returns a
\* record from the cache or from the persistent store, and writes a
\* persistent-store record into mensa_cache, only if _should_refresh_menu, asked
\* about that record at that time, required no refresh; with force_refresh it
\* returns neither.
C17_GateBeforeUse ==
    /\ menu_ret.src \in {"cache", "db"} =>
          /\ ~menu_call.force_refresh
          /\ menu_ret.rec.has
          /\ ~should_refresh_menu(menu_ret.rec.last_updated, menu_ret.at)
    /\ promoted.has =>
          /\ promoted.rec.has
          /\ ~should_refresh_menu(promoted.rec.last_updated, promoted.at)

\* the cached record was refused by the gate, the persistent-store record was
\* accepted, returned and written into the cache
C17_Witness ==
    /\ menu_ret.src = "db"
    /\ "cache" \in menu_ret.refused
    /\ promoted.has
    /\ promoted.rec = menu_ret.rec
    /\ mensa_cached = menu_ret.rec

(***************************************************************************)
(* The clear-all endpoint                                                  *)
(***************************************************************************)
\* C18 (clear-all): the clear-all operation clears every named cache and
\* reports the number of entries they held together just before: it answers
\* with success, its total is that number, and every cache is empty afterwards.
C18_ClearAllEmpties ==
    [][admin'.op = "clear_all" /\ admin' # admin =>
            /\ admin'.status = 200
            /\ admin'.total = TotalEntries(registry)
            /\ \A n \in CacheNames : registry'[n].keys = {}]_vars

(***************************************************************************)
(* Cache keys                                                              *)
(***************************************************************************)
\* a coordinate rounded to d decimals, with its sign
RoundedCoord(x, d) == [neg |-> x < 0, mag |-> RoundHalfEven(Abs(x), Pow10(7 - d))]

\* the normalized parameters of a request: the operation, the coordinates
\* rounded to the precision of the operation (four decimals for stations, six
\* for the others), and the other parameters as they are
Normalized(r) ==
    LET d == IF r.op = "stations" THEN 4 ELSE 6
    IN [r EXCEPT !.lat = RoundedCoord(r.lat, d), !.lon = RoundedCoord(r.lon, d),
                 !.to_lat = RoundedCoord(r.to_lat, d),
                 !.to_lon = RoundedCoord(r.to_lon, d)]

OtherCap(cap) == IF cap = "stations" THEN "journeys" ELSE "stations"

\* C21 (independent capabilities): while the cycle is in the step of one
\* capability, whatever its probes say and also when the step is cut short, the
\* other capability's base URL, provider name and failure counters stay as they
\* are.
C21_StepsAreFramed ==
    [][\A cap \in Capabilities :
          (pc.cap = cap /\ pc.at \in {"test_bvg", "test_vbb"}) =>
              LET o == OtherCap(cap)
              IN /\ state'[BaseField(o)] = state[BaseField(o)]
                 /\ state'[NameField(o)] = state[NameField(o)]
                 /\ failure_counts'[BvgKey(o)] = failure_counts[BvgKey(o)]
                 /\ failure_counts'[VbbKey(o)] = failure_counts[VbbKey(o)]]_vars

\* in one cycle stations were switched to VBB and journeys were then pinned to
\* BVG: the two capabilities are on different backends
C21_Witness ==
    /\ outcome["stations"].vbb = "pass"
    /\ outcome["journeys"].bvg = "pass"
    /\ Active(state, "stations") = VbbPair
    /\ Active(state, "journeys") = BvgPair
    /\ failure_counts["bvg_stations"] > 0
    /\ failure_counts["bvg_journeys"] = 0

\* C28 (coherent pairs): in every state, in the middle of a cycle and after an
\* aborted one included, what get_state and get_api_status show for a capability
\* is the name and the base URL of one candidate: "bvg" exactly with the BVG
\* URL, "vbb" exactly with the VBB URL.
C28_NameMatchesBase ==
    \A cap \in Capabilities :
        LET shown == IF cap = "stations" THEN get_api_status(state).stations_api
                                         ELSE get_api_status(state).journeys_api
        IN /\ shown.provider = state[NameField(cap)]
           /\ shown.base_url = state[BaseField(cap)]
           /\ shown.provider \in {"bvg", "vbb"}
           /\ shown.provider = "bvg" <=> shown.base_url = BVG_URL
           /\ shown.provider = "vbb" <=> shown.base_url = VBB_URL

\* a cycle was aborted after it had switched stations to VBB, journeys still on BVG
C28_Witness ==
    /\ aborted
    /\ get_api_status(state).stations_api = [provider |-> "vbb", base_url |-> VBB_URL]
    /\ get_api_status(state).journeys_api = [provider |-> "bvg", base_url |-> BVG_URL]

(***************************************************************************)
(* The probe cycle: one at a time, last_check, the target of requests      *)
(***************************************************************************)
\* C29 (one cycle at a time): never more than one probe cycle is in progress;
\* none is in progress while the checker sleeps, so the periodic checker begins
\* a cycle only when the startup cycle and every earlier cycle has returned or
\* been cancelled.
C29_OneCycleAtATime ==
    /\ running \in {0, 1}
    /\ pc.at \in {"startup", "sleep"} => running = 0
    /\ pc.at \in {"test_bvg", "test_vbb"} => running = 1

\* the second periodic cycle was cancelled by the timeout in its journeys
\* step: the checker sleeps and no cycle is in progress
C29_Witness ==
    /\ task = "periodic"
    /\ cycles = 3
    /\ aborted
    /\ outcome["journeys"].bvg = "aborted"
    /\ pc.at = "sleep"
    /\ running = 0

\* the step pins an endpoint: a primary or a secondary probe has passed
PinningStep ==
    \/ pc.at = "test_bvg" /\ outcome'[pc.cap].bvg = "pass"
    \/ pc.at = "test_vbb" /\ outcome'[pc.cap].vbb = "pass"

\* C30 (last_check): last_check never decreases; it changes only in a step
\* that pins an endpoint, which sets it to the time of that step; a cycle that
\* ends with no probe passed has left it at an earlier time.
C30_LastCheckOnlyOnPin ==
    [][/\ state'.last_check >= state.last_check
       /\ state'.last_check # state.last_check => PinningStep
       /\ PinningStep => state'.last_check = cycles
       /\ (/\ pc.at \in {"test_bvg", "test_vbb"}
           /\ pc'.at = "sleep"
           /\ \A c \in Capabilities : "pass" \notin {outcome'[c].bvg, outcome'[c].vbb})
          => state'.last_check < cycles]_vars

\* after a cycle that pinned, a cycle in which all four probes failed is over
C30_Witness ==
    /\ pc.at = "sleep"
    /\ cycles = 2
    /\ state.last_check = 1
    /\ \A c \in Capabilities : outcome[c] = [bvg |-> "fail", vbb |-> "fail"]

\* C25 (requests follow the tracker): a request sent upstream for a capability
\* goes to the base URL the tracker holds for that capability when it is sent.
C25_RequestsFollowTracker ==
    [][upstream' # upstream => upstream'.url = state[BaseField(upstream'.cap)]]_vars

\* cycle n is over and it failed: it was cancelled by the timeout, or a
\* primary probe of it failed
FailedCycleOver(n) ==
    /\ cycles = n
    /\ pc.at \notin {"startup", "test_bvg", "test_vbb"}
    /\ aborted \/ \E c \in Capabilities : outcome[c].bvg = "fail"

StructurallyValid(cap, resp) ==
    IF cap = "stations"
    THEN /\ resp.kind = "list"
         /\ \E i \in 1..Len(resp.items) :
               /\ resp.items[i] = "stop"
               /\ \A j \in 1..(i - 1) : resp.items[j] # "scalar"
    ELSE /\ resp.kind \in {"object", "bare"}
         /\ resp.info # "scalar"
         /\ \/ resp.kind = "object" /\ Len(resp.items) > 0 /\ resp.items[1] = "legs"
            \/ resp.info \in {"no_stations", "no_results"}

\* what a query came back with, in the words of the claim
QueryKind(cap, resp) ==
    IF resp.error = "network" THEN "network_error"
    ELSE IF resp.error = "timeout" THEN "timeout"
    ELSE IF resp.status # 200 THEN "status"
    ELSE IF resp.kind = "undecodable" THEN "undecodable"
    ELSE IF ~StructurallyValid(cap, resp) THEN "invalid"
    ELSE "valid"

\* the queries of the probe that came back valid
ValidQueries ==
    {i \in 1..Len(probe.asked) : QueryKind(probe.cap, probe.asked[i]) = "valid"}

C26_SameKeys ==
    /\ KeysOf(cache) = DOMAIN timestamps
    /\ Cardinality(KeysOf(cache)) = Len(cache)

\* a get has just dropped an expired entry from both maps, another entry stays
C26_Witness ==
    /\ ret.op = "get"
    /\ ret.present
    /\ ret.val = None
    /\ ret.key \notin KeysOf(cache)
    /\ ret.key \notin DOMAIN timestamps
    /\ Len(cache) > 0

\* the step is a call of clear
ClearStep == steps' # steps /\ ret'.op = "clear"

\* C27 (conservation): since construction or the last clear, the sets that
\* inserted a key that was absent when it was inserted are as many as the
\* entries now held plus the evictions counted plus the deletes that returned
\* True; and hits, misses and evictions go down in no step but a clear.
C27_EntriesConserved ==
    /\ [](ledger.inserted = Len(cache) + evictions + ledger.deleted)
    /\ [][ClearStep \/ (hits' >= hits /\ misses' >= misses /\ evictions' >= evictions)]_vars

\* after an eviction and a successful delete an entry is still held
C27_Witness ==
    /\ evictions > 0
    /\ ledger.deleted > 0
    /\ Len(cache) > 0
    /\ ledger.inserted = 3

(***************************************************************************)
(* cleanup_all_caches                                                      *)
(***************************************************************************)
\* the sweep has returned
SweepDone == sweep.at = Len(CleanupOrder) + 1

\* C24 (the sweep of all caches): a sweep that has returned has run
\* cleanup_expired once on each of the four caches and holds one count per
\* cache, the number of entries it removed from that cache; the total the
\* endpoint reports is the number of entries the sweep removed, whatever was
\* stored, looked up or expired between two of its turns; and every cache
\* keeps one key set in its two maps and counts each expired entry it dropped
\* exactly once.
C24_SweepCountsWhatItRemoves ==
    /\ \A n \in CacheNames :
          /\ registry[n].keys = DOMAIN registry[n].stamps
          /\ registry[n].inserted = Cardinality(registry[n].keys) + registry[n].evictions
    /\ \A n \in CacheNames : sweep.visits[n] <= 1
    /\ SweepDone =>
          /\ \A n \in CacheNames : sweep.visits[n] = 1
          /\ DOMAIN sweep.results = {ResultName(n) : n \in CacheNames}
          /\ \A n \in CacheNames : sweep.results[ResultName(n)] = sweep.removed[n]
          /\ SumResults(sweep.results) =
                sweep.removed["api_cache"] + sweep.removed["geocoding_cache"]
                  + sweep.removed["transport_cache"] + sweep.removed["mensa_cache"]
          /\ admin.op = "cleanup" => admin.total = SumResults(sweep.results)

\* a sweep that began with one entry held returned having removed one entry
\* from each of two caches: the second entry was stored and expired while the
\* sweep was on its way
C24_Witness ==
    /\ SweepDone
    /\ admin.op = "cleanup"
    /\ admin.before = 1
    /\ admin.total = 2
    /\ sweep.results["api"] = 1
    /\ sweep.results["transport"] = 1
    /\ registry["transport_cache"].evictions = 1
    /\ TotalEntries(registry) = 0
====
